---- MODULE Spec2Model ----
(***************************************************************************)
(* Wind Exposure API (src/main.py): the /exposure endpoint, the NLCD       *)
(* sampler, the roughness classifier and the ASCE threshold reducer.       *)
(*                                                                         *)
(* Floating-point quantities are kept exact by scaling: feet-to-metre      *)
(* factor 0.3048 is 3048/10000 and metre-to-feet factor 3.281 is           *)
(* 3281/1000. Heights are whole feet. An Optional[float] is <<>> (None)    *)
(* or <<v>>.                                                               *)
(***************************************************************************)
EXTENDS Integers, Sequences, FiniteSets

VARIABLES
    pc,           \* position of the request / of the function under study
    cache,        \* state of the NLCD_CACHE file: "absent", "partial", "complete"
    req,          \* resolved request: latitude_val, longitude_val, height_ft
    results,      \* the list `results` built by the loop of exposure()
    governing,    \* the local `governing` of exposure()
    response,     \* what the client receives
    served,       \* per direction, the land-cover behaviour the raster showed
    loadCalls,    \* number of load_nlcd() calls made by the request
    lookupCalls,  \* number of dataset.index/read lookups attempted by the request
    arg,          \* argument of the function under study (function specifications)
    ret           \* its return value

vars == <<pc, cache, req, results, governing, response, served, loadCalls,
          lookupCalls, arg, ret>>

None == <<>>
Some(v) == <<v>>

\* ---------------------------------------------------------------- constants

PIXEL_SIZE_M == 30

\* 0.3048 m per ft, times 10^4
FT_TO_M_E4 == 3048

\* 3.281 ft per m, times 10^3
M_TO_FT_E3 == 3281

\* Variant: the last bearing left out of the table.
DIRECTIONS_SevenBearings ==
    << <<"N", 0>>, <<"NE", 45>>, <<"E", 90>>, <<"SE", 135>>,
       <<"S", 180>>, <<"SW", 225>>, <<"W", 270>> >>

DIRECTIONS ==
    << <<"N", 0>>, <<"NE", 45>>, <<"E", 90>>, <<"SE", 135>>,
       <<"S", 180>>, <<"SW", 225>>, <<"W", 270>>, <<"NW", 315>> >>

Max(a, b) == IF a >= b THEN a ELSE b

\* ---------------------------------------------------------------- classifier

nlcd_to_roughness(value) ==
    IF value = 11 THEN "D"
    ELSE IF value \in {21, 22, 23, 24, 41, 42, 43} THEN "B"
    ELSE "C"

\* ---------------------------------------------------------------- sampler

\* The raster along one bearing: the code every pixel holds, and whether the
\* index/read calls raise ("never" or "always").
LookupRaises(profile, i) == profile.fail = "always"

\* steps = int(fetch_m / PIXEL_SIZE_M), fetch_m = fetch_ft * 0.3048
Steps(fetch_ft) == (fetch_ft * FT_TO_M_E4) \div (10000 * PIXEL_SIZE_M)

\* Variant: the except block appends "B" for a pixel that cannot be read.
Attempt_DefaultB(profile, i) ==
    IF LookupRaises(profile, i) THEN Some("B")
    ELSE Some(nlcd_to_roughness(profile.code))

\* What iteration i of the for loop does: the try block appends the roughness
\* of the pixel, the except block appends nothing.
Attempt(profile, i) ==
    IF LookupRaises(profile, i) THEN None
    ELSE Some(nlcd_to_roughness(profile.code))

Appended(a) == a # None

\* for i in range(1, steps + 1): the values appended, in the order of the steps
sample_upwind_roughness(profile, fetch_ft) ==
    LET attempts == [i \in 1..Steps(fetch_ft) |-> Attempt(profile, i)]
        kept == SelectSeq(attempts, Appended)
    IN  [k \in 1..Len(kept) |-> kept[k][1]]

\* ---------------------------------------------------------------- reducer

\* list.count
Count(roughness, cat) ==
    Cardinality({i \in 1..Len(roughness) : roughness[i] = cat})

req_B(height_ft) == Max(2600, 20 * height_ft)
req_D(height_ft) == Max(5000, 20 * height_ft)

\* Variant: the comparison turned around.
MeetsLength_Reversed(n, required_ft) ==
    n * PIXEL_SIZE_M * M_TO_FT_E3 <= required_ft * 1000

\* count * PIXEL_SIZE_M * 3.281 >= req, both sides times 10^3
MeetsLength(n, required_ft) == n * PIXEL_SIZE_M * M_TO_FT_E3 >= required_ft * 1000

\* Variant: the B test placed before the D test.
determine_exposure_BFirst(roughness, height_ft) ==
    IF MeetsLength(Count(roughness, "B"), req_B(height_ft)) THEN "B"
    ELSE IF MeetsLength(Count(roughness, "D"), req_D(height_ft)) THEN "D"
    ELSE "C"

determine_exposure(roughness, height_ft) ==
    IF MeetsLength(Count(roughness, "D"), req_D(height_ft)) THEN "D"
    ELSE IF MeetsLength(Count(roughness, "B"), req_B(height_ft)) THEN "B"
    ELSE "C"

\* ---------------------------------------------------------------- load_nlcd

\* How one call of load_nlcd() ends. With the cache file absent the download
\* runs first: requests.get / raise_for_status may raise (no file is written),
\* the chunked write may raise (a truncated file stays), and rasterio.open may
\* raise on any call.
LoadOutcomes(c) ==
    IF c = "absent"
    THEN {"ok", "download_failed", "write_failed", "open_failed"}
    ELSE {"ok", "open_failed"}

CacheAfter(c, outcome) ==
    IF c # "absent" THEN c
    ELSE IF outcome = "download_failed" THEN "absent"
    ELSE IF outcome = "write_failed" THEN "partial"
    ELSE "complete"

\* ---------------------------------------------------------------- exposure()

\* latitude_val = lat if lat is not None else latitude (and so on for lon/lng)
Resolve(first, second) == IF first # None THEN first ELSE second

\* Variant: the longitude range check left out.
Validate_NoLongitudeCheck(latitude_val, longitude_val, height_ft) ==
    IF height_ft = None THEN "422 height_ft required"
    ELSE IF ~(height_ft[1] > 0) THEN "422 height_ft gt 0"
    ELSE IF latitude_val = None \/ longitude_val = None THEN "400 Provide latitude and longitude"
    ELSE IF ~(-90 <= latitude_val[1] /\ latitude_val[1] <= 90) THEN "400 Latitude out of range"
    ELSE "ok"

\* Query(..., gt=0) and the three HTTPException checks, in the order they run.
Validate(latitude_val, longitude_val, height_ft) ==
    IF height_ft = None THEN "422 height_ft required"
    ELSE IF ~(height_ft[1] > 0) THEN "422 height_ft gt 0"
    ELSE IF latitude_val = None \/ longitude_val = None THEN "400 Provide latitude and longitude"
    ELSE IF ~(-90 <= latitude_val[1] /\ latitude_val[1] <= 90) THEN "400 Latitude out of range"
    ELSE IF ~(-180 <= longitude_val[1] /\ longitude_val[1] <= 180) THEN "400 Longitude out of range"
    ELSE "ok"

\* the if / elif at the end of the loop body
UpdateGoverning(g, exposure_cat) ==
    IF exposure_cat = "D" THEN "D"
    ELSE IF exposure_cat = "B" /\ g # "D" THEN "B"
    ELSE g

NoResponse == [status |-> "none", governing_exposure |-> "", directions |-> <<>>]

ErrorResponse(s) == [status |-> s, governing_exposure |-> "", directions |-> <<>>]

SuccessResponse(g, rs) == [status |-> "success", governing_exposure |-> g, directions |-> rs]

\* ---------------------------------------------------------------- inputs

LatParams == {None, Some(40), Some(91)}
LatitudeParams == {None, Some(-91)}
LonParams == {None, Some(-100)}
LngParams == {None, Some(181)}
LongitudeParams == {None, Some(180), Some(-181)}
HeightParams == {None, Some(-5), Some(0), Some(33), Some(300), Some(438)}

Water == [code |-> 11, fail |-> "never"]
Forest == [code |-> 41, fail |-> "never"]
Unavailable == [code |-> 0, fail |-> "always"]
LoadError == [code |-> 0, fail |-> "load"]

Profiles == {Water, Forest, Unavailable}

\* ---------------------------------------------------------------- request

Init ==
    /\ pc = "idle"
    /\ cache \in {"absent", "complete"}
    /\ req = [latitude_val |-> None, longitude_val |-> None, height_ft |-> None]
    /\ results = <<>>
    /\ governing = ""
    /\ response = NoResponse
    /\ served = <<>>
    /\ loadCalls = 0
    /\ lookupCalls = 0
    /\ arg = <<>>
    /\ ret = <<>>

\* A request that validation turns away.
Reject ==
    /\ pc = "idle"
    /\ \E lat \in LatParams, latitude \in LatitudeParams, lon \in LonParams,
          lng \in LngParams, longitude \in LongitudeParams, height_ft \in HeightParams :
        LET latitude_val == Resolve(lat, latitude)
            longitude_val == Resolve(lon, Resolve(lng, longitude))
            v == Validate(latitude_val, longitude_val, height_ft)
        IN  /\ v # "ok"
            /\ req' = [latitude_val |-> latitude_val, longitude_val |-> longitude_val,
                       height_ft |-> height_ft]
            /\ response' = ErrorResponse(v)
            /\ pc' = "rejected"
    /\ UNCHANGED <<cache, results, governing, served, loadCalls, lookupCalls, arg, ret>>

\* A request that passes validation: results = [], governing = "C".
Accept ==
    /\ pc = "idle"
    /\ \E lat \in LatParams, latitude \in LatitudeParams, lon \in LonParams,
          lng \in LngParams, longitude \in LongitudeParams, height_ft \in HeightParams :
        LET latitude_val == Resolve(lat, latitude)
            longitude_val == Resolve(lon, Resolve(lng, longitude))
        IN  /\ Validate(latitude_val, longitude_val, height_ft) = "ok"
            /\ req' = [latitude_val |-> latitude_val, longitude_val |-> longitude_val,
                       height_ft |-> height_ft]
    /\ results' = <<>>
    /\ governing' = "C"
    /\ pc' = "loop"
    /\ UNCHANGED <<cache, response, served, loadCalls, lookupCalls, arg, ret>>

\* One iteration of `for name, bearing in DIRECTIONS` in which load_nlcd()
\* returns a dataset; after the eighth the report is returned.
Direction ==
    /\ pc = "loop"
    /\ \E profile \in Profiles :
        LET d == DIRECTIONS[Len(results) + 1]
            height_ft == req.height_ft[1]
            fetch_ft == Max(20 * height_ft, 5000)
            roughness_vals == sample_upwind_roughness(profile, fetch_ft)
            exposure_cat == determine_exposure(roughness_vals, height_ft)
            g == UpdateGoverning(governing, exposure_cat)
            rs == Append(results,
                    [direction |-> d[1], bearing_deg |-> d[2],
                     exposure |-> exposure_cat,
                     sample_count |-> Len(roughness_vals)])
        IN  /\ governing' = g
            /\ results' = rs
            /\ served' = Append(served, profile)
            /\ lookupCalls' = lookupCalls + Steps(fetch_ft)
            /\ IF Len(rs) = Len(DIRECTIONS)
               THEN pc' = "done" /\ response' = SuccessResponse(g, rs)
               ELSE pc' = "loop" /\ UNCHANGED response
    /\ cache' = CacheAfter(cache, "ok")
    /\ loadCalls' = loadCalls + 1
    /\ UNCHANGED <<req, arg, ret>>

\* Variant: a load_nlcd() failure caught inside the loop and treated as a
\* direction without samples.
DirectionLoadFails_Swallowed ==
    /\ pc = "loop"
    /\ \E outcome \in LoadOutcomes(cache) \ {"ok"} :
        cache' = CacheAfter(cache, outcome)
    /\ LET d == DIRECTIONS[Len(results) + 1]
           exposure_cat == determine_exposure(<<>>, req.height_ft[1])
           g == UpdateGoverning(governing, exposure_cat)
           rs == Append(results,
                    [direction |-> d[1], bearing_deg |-> d[2],
                     exposure |-> exposure_cat, sample_count |-> 0])
       IN  /\ governing' = g
           /\ results' = rs
           /\ IF Len(rs) = Len(DIRECTIONS)
              THEN pc' = "done" /\ response' = SuccessResponse(g, rs)
              ELSE pc' = "loop" /\ UNCHANGED response
    /\ served' = Append(served, LoadError)
    /\ loadCalls' = loadCalls + 1
    /\ UNCHANGED <<req, lookupCalls, arg, ret>>

\* An iteration in which load_nlcd() raises: the exception leaves exposure()
\* and the framework answers 500.
DirectionLoadFails ==
    /\ pc = "loop"
    /\ \E outcome \in LoadOutcomes(cache) \ {"ok"} :
        cache' = CacheAfter(cache, outcome)
    /\ served' = Append(served, LoadError)
    /\ loadCalls' = loadCalls + 1
    /\ pc' = "failed"
    /\ response' = ErrorResponse("500 Internal Server Error")
    /\ UNCHANGED <<req, results, governing, lookupCalls, arg, ret>>

Next == Reject \/ Accept \/ Direction \/ DirectionLoadFails

Spec == Init /\ [][Next]_vars

\* ---------------------------------------------------------------- classifier alone

\* Largest land-cover code tried on nlcd_to_roughness.
MaxCode == 100

InitClassify ==
    /\ pc = "classify_call"
    /\ arg \in 0..MaxCode
    /\ ret = <<>>
    /\ cache = "complete"
    /\ req = [latitude_val |-> None, longitude_val |-> None, height_ft |-> None]
    /\ results = <<>>
    /\ governing = ""
    /\ response = NoResponse
    /\ served = <<>>
    /\ loadCalls = 0
    /\ lookupCalls = 0

Classify ==
    /\ pc = "classify_call"
    /\ ret' = nlcd_to_roughness(arg)
    /\ pc' = "classify_ret"
    /\ UNCHANGED <<cache, req, results, governing, response, served, loadCalls,
                   lookupCalls, arg>>

NextClassify == Classify

SpecClassify == InitClassify /\ [][NextClassify]_vars

\* ---------------------------------------------------------------- reducer alone

\* Number of runs of equal samples a roughness list is built from.
MaxRuns == 2

Cats == {"B", "C", "D"}

\* Run lengths on both sides of the 2600 ft, 2700 ft, 5000 ft and 5200 ft
\* requirements (one sample is 98.43 ft).
RunLens == {26, 27, 51, 53}

ReduceHeights == {100, 135, 260}

Rep(cat, n) == [i \in 1..n |-> cat]

RECURSIVE ListsOfRuns(_)
ListsOfRuns(k) ==
    IF k = 0 THEN {<<>>}
    ELSE LET shorter == ListsOfRuns(k - 1)
         IN  shorter \cup {l \o Rep(c, n) : l \in shorter, c \in Cats, n \in RunLens}

InitReduce ==
    /\ pc = "reduce_call"
    /\ \E l \in ListsOfRuns(MaxRuns), a \in ReduceHeights, b \in ReduceHeights :
        /\ a <= b
        /\ arg = [roughness |-> l, h1 |-> a, h2 |-> b]
    /\ ret = <<>>
    /\ cache = "complete"
    /\ req = [latitude_val |-> None, longitude_val |-> None, height_ft |-> None]
    /\ results = <<>>
    /\ governing = ""
    /\ response = NoResponse
    /\ served = <<>>
    /\ loadCalls = 0
    /\ lookupCalls = 0

\* determine_exposure on one roughness list at two heights
Reduce ==
    /\ pc = "reduce_call"
    /\ ret' = [e1 |-> determine_exposure(arg.roughness, arg.h1),
               e2 |-> determine_exposure(arg.roughness, arg.h2)]
    /\ pc' = "reduce_ret"
    /\ UNCHANGED <<cache, req, results, governing, response, served, loadCalls,
                   lookupCalls, arg>>

NextReduce == Reduce

SpecReduce == InitReduce /\ [][NextReduce]_vars

\* ================================================================ claims

Exposures == {results[i].exposure : i \in 1..Len(results)}

AllServed(profile) == \A i \in 1..Len(served) : served[i] = profile

\* floor(fetch_m / 30) with fetch_m = max(20 * height_ft, 5000) * 0.3048
ExpectedSteps(height_ft) ==
    (Max(20 * height_ft, 5000) * 3048) \div 300000

\* C1: in a returned report the governing exposure is one of B, C, D; it is D
\* iff some direction is D, B iff all eight directions are B, and C otherwise.
C1_Precedence ==
    pc = "done" =>
        /\ governing \in {"B", "C", "D"}
        /\ (governing = "D") <=> ("D" \in Exposures)
        /\ (governing = "B") <=> (Exposures = {"B"})
        /\ (governing = "C") <=> ("D" \notin Exposures /\ Exposures # {"B"})

\* C2: when every lookup of every direction returned code 11, every direction
\* of the report is D and the governing exposure is D.
C2_OpenWaterIsD ==
    (pc = "done" /\ AllServed(Water)) =>
        /\ \A i \in 1..Len(results) : results[i].exposure = "D"
        /\ governing = "D"

\* C3: determine_exposure returns D when the length of the D samples reaches
\* max(5000, 20 h) ft, else B when the length of the B samples reaches
\* max(2600, 20 h) ft, else C; D wins over B and the empty list gives C.
LengthMilliFt(roughness, cat) ==
    98430 * Cardinality({i \in DOMAIN roughness : roughness[i] = cat})

ThresholdRule(roughness, h) ==
    IF LengthMilliFt(roughness, "D") >= 1000 * Max(5000, 20 * h) THEN "D"
    ELSE IF LengthMilliFt(roughness, "B") >= 1000 * Max(2600, 20 * h) THEN "B"
    ELSE "C"

C3_ThresholdReducer ==
    pc = "reduce_ret" =>
        /\ ret.e1 = ThresholdRule(arg.roughness, arg.h1)
        /\ ret.e2 = ThresholdRule(arg.roughness, arg.h2)
        /\ (arg.roughness = <<>> => ret.e1 = "C")

C3_Witness ==
    /\ pc = "reduce_ret"
    /\ LengthMilliFt(arg.roughness, "D") >= 1000 * Max(5000, 20 * arg.h1)
    /\ LengthMilliFt(arg.roughness, "B") >= 1000 * Max(2600, 20 * arg.h1)
    /\ ret.e1 = "D"

\* C4: every direction processed holds exactly floor(fetch_m / 30) samples,
\* whichever lookups failed.
C4_OneSamplePerStep ==
    pc \in {"loop", "done"} =>
        \A i \in 1..Len(results) :
            results[i].sample_count = ExpectedSteps(req.height_ft[1])

\* C5: a request with a latitude outside [-90, 90], a longitude outside
\* [-180, 180], a height_ft <= 0 or a missing latitude/longitude is rejected,
\* and no raster load and no lookup has run and no report exists.
InvalidRequest ==
    \/ req.latitude_val = None
    \/ req.longitude_val = None
    \/ req.latitude_val[1] < -90 \/ req.latitude_val[1] > 90
    \/ req.longitude_val[1] < -180 \/ req.longitude_val[1] > 180
    \/ (req.height_ft # None /\ req.height_ft[1] <= 0)

C5_RejectedBeforeSampling ==
    /\ (pc # "idle" /\ InvalidRequest) => pc = "rejected"
    /\ pc = "rejected" =>
        /\ loadCalls = 0
        /\ lookupCalls = 0
        /\ results = <<>>
        /\ response.status \notin {"none", "success"}
        /\ response.directions = <<>>

C5_Witness ==
    /\ pc = "rejected"
    /\ req.height_ft = Some(33)
    /\ req.latitude_val = Some(40)
    /\ req.longitude_val = Some(-181)

\* C6: a successful response holds exactly the eight directions N(0), NE(45),
\* E(90), SE(135), S(180), SW(225), W(270), NW(315) in this order, whatever the
\* lookups returned, and any other response holds no direction at all.
CanonicalBearings ==
    << <<"N", 0>>, <<"NE", 45>>, <<"E", 90>>, <<"SE", 135>>,
       <<"S", 180>>, <<"SW", 225>>, <<"W", 270>>, <<"NW", 315>> >>

C6_EightDirections ==
    /\ (pc = "done" \/ response.status = "success") =>
        /\ pc = "done"
        /\ response.status = "success"
        /\ Len(response.directions) = 8
        /\ \A i \in 1..8 :
            /\ response.directions[i].direction = CanonicalBearings[i][1]
            /\ response.directions[i].bearing_deg = CanonicalBearings[i][2]
    /\ pc # "done" => response.directions = <<>>

C6_Witness ==
    /\ pc = "done"
    /\ Len(response.directions) = 8
    /\ served[1] = Unavailable
    /\ served[8] = Water

\* C7 (as stated): for heights h1 <= h2 the required lengths do not decrease and
\* the result at h2 equals the result at h1 or is C.
C7_MonotoneOriginal ==
    pc = "reduce_ret" =>
        /\ req_B(arg.h2) >= req_B(arg.h1)
        /\ req_D(arg.h2) >= req_D(arg.h1)
        /\ (ret.e2 = ret.e1 \/ ret.e2 = "C")

\* C7 (amended): for heights h1 <= h2 the required lengths do not decrease and
\* the result at h2 equals the result at h1, or is C, or is B where the result
\* at h1 was D; it never becomes D and never becomes B from C.
C7_MonotoneAmended ==
    pc = "reduce_ret" =>
        /\ req_B(arg.h2) >= req_B(arg.h1)
        /\ req_D(arg.h2) >= req_D(arg.h1)
        /\ \/ ret.e2 = ret.e1
           \/ ret.e2 = "C"
           \/ (ret.e1 = "D" /\ ret.e2 = "B")

C7_Witness ==
    /\ pc = "reduce_ret"
    /\ arg.h1 < arg.h2
    /\ ret.e1 = "D"
    /\ ret.e2 = "B"

\* C8: nlcd_to_roughness returns B for 21-24 and 41-43, D for 11 and 12, and C
\* for every other code.
C8_ClassifierTable ==
    pc = "classify_ret" =>
        /\ ret \in {"B", "C", "D"}
        /\ (arg \in (21..24) \cup (41..43)) => ret = "B"
        /\ (arg \in {11, 12}) => ret = "D"
        /\ (arg \notin (21..24) \cup (41..43) \cup {11, 12}) => ret = "C"

\* C9: once load_nlcd has raised, the request has ended in a server error
\* with no report; a successful report never follows a failed load.
C9_LoadFailureIsFatal ==
    (\E i \in 1..Len(served) : served[i] = LoadError) =>
        /\ pc = "failed"
        /\ response.status = "500 Internal Server Error"
        /\ response.directions = <<>>
        /\ response.governing_exposure = ""

C9_Witness ==
    /\ pc = "failed"
    /\ Len(served) = 3
    /\ served[1] = Unavailable
    /\ served[2] = Unavailable
    /\ served[3] = LoadError

\* C10: when the raster opens and every lookup of every direction fails, the
\* request succeeds, every direction is C and the governing exposure is C.
C10_AllUnavailableIsC ==
    (pc \in {"loop", "done", "failed"} /\ AllServed(Unavailable)) =>
        /\ pc # "failed"
        /\ \A i \in 1..Len(results) : results[i].exposure = "C"
        /\ governing = "C"
        /\ Len(served) = 8 =>
            /\ pc = "done"
            /\ response.status = "success"
            /\ response.governing_exposure = "C"
            /\ \A i \in 1..8 : response.directions[i].exposure = "C"

C10_Witness ==
    /\ pc = "done"
    /\ Len(served) = 8
    /\ AllServed(Unavailable)
    /\ response.status = "success"

====
